---- MODULE Spec2Model ----
(***************************************************************************)
(* PeelJoy server (src/server.js): an Express proxy in front of a design-  *)
(* asset provider plus a download counter.  The file holds the two         *)
(* provider integrations of the server: the IconScout one (lines 1-296)    *)
(* and the Freepik one (lines 297-685).  `provider` says which of the two  *)
(* is the running server.                                                  *)
(*                                                                         *)
(* A JavaScript value is a pair <<kind, payload>>.  The payload of a       *)
(* string is a sequence of tokens; a token is one character ("5", "-") or  *)
(* an opaque chunk of text that is never read as a number (" 3d").         *)
(***************************************************************************)
EXTENDS Integers, Sequences, FiniteSets, TLC

VARIABLES
    provider,        \* "iconscout" | "freepik": which server of src/server.js runs
    apiKey,          \* CLIENT_ID / FREEPIK_API_KEY (process.env value)
    nodeEnv,         \* process.env.NODE_ENV
    downloadCounts,  \* the own properties of the downloadCounts object
    file,            \* downloads.json on disk
    loaded,          \* history: downloadCounts as loaded at start
    incs,            \* history: completed POST /api/downloads/:id per id
    dresp,           \* last response of a /api/downloads handler
    inflight,        \* POST /api/downloads requests the process holds, per connection
    pc,              \* search handler: "idle" | "calling" | "awaiting" | "responded"
    req,             \* the search request, from its receipt until its provider call is sent
    outbound,        \* the request axios is sending to the provider
    calls,           \* axios calls issued for the current search request
    handler,         \* what the handler's continuation after the await uses
    settled,         \* how the axios promise of the current request settled
    resp,            \* the response sent for the current search request
    sent             \* responses sent for the current search request

vars == <<provider, apiKey, nodeEnv, downloadCounts, file, loaded, incs, dresp,
          inflight, pc, req, outbound, calls, handler, settled, resp, sent>>

searchVars == <<pc, req, outbound, calls, handler, settled, resp, sent>>
downloadVars == <<downloadCounts, file, loaded, incs, dresp, inflight>>
configVars == <<provider, apiKey, nodeEnv>>

----------------------------------------------------------------------------
(* Bounds of the model *)

\* longest items array in a provider payload
MaxItems == 2
\* most POST /api/downloads/:assetId requests served per asset id
MaxIncs == 3
\* largest count found in downloads.json at start
MaxLoaded == 2
\* most POST /api/downloads/:assetId requests the process holds at once
MaxParallel == 2

----------------------------------------------------------------------------
(* JavaScript values *)

Undefined == <<"undefined", 0>>
Null == <<"null", 0>>
NaN == <<"NaN", 0>>
Num(n) == <<"number", n>>
Str(s) == <<"string", s>>
Arr(s) == <<"array", s>>
Obj(r) == <<"object", r>>
\* a built-in function object (a method inherited from Object.prototype)
Fn(name) == <<"function", name>>
EmptyObject == Obj(<<>>)

Digits == {"0", "1", "2", "3", "4", "5", "6", "7", "8", "9"}

DigitValue(c) ==
    CASE c = "0" -> 0 [] c = "1" -> 1 [] c = "2" -> 2 [] c = "3" -> 3
      [] c = "4" -> 4 [] c = "5" -> 5 [] c = "6" -> 6 [] c = "7" -> 7
      [] c = "8" -> 8 [] c = "9" -> 9

DigitChar(d) ==
    CASE d = 0 -> "0" [] d = 1 -> "1" [] d = 2 -> "2" [] d = 3 -> "3"
      [] d = 4 -> "4" [] d = 5 -> "5" [] d = 6 -> "6" [] d = 7 -> "7"
      [] d = 8 -> "8" [] d = 9 -> "9"

IsDigits(s) == Len(s) > 0 /\ \A i \in 1..Len(s) : s[i] \in Digits

RECURSIVE DigitsValue(_)
DigitsValue(s) ==
    IF s = <<>> THEN 0
    ELSE 10 * DigitsValue(SubSeq(s, 1, Len(s) - 1)) + DigitValue(s[Len(s)])

\* ToNumber applied to a string: "" is 0, an optionally signed run of decimal
\* digits is its value, anything else is NaN
StringToNumber(s) ==
    IF s = <<>> THEN Num(0)
    ELSE IF IsDigits(s) THEN Num(DigitsValue(s))
    ELSE IF Head(s) = "-" /\ IsDigits(Tail(s)) THEN Num(0 - DigitsValue(Tail(s)))
    ELSE IF Head(s) = "+" /\ IsDigits(Tail(s)) THEN Num(DigitsValue(Tail(s)))
    ELSE NaN

\* the ToNumber conversion Math.min applies to each argument
ToNumber(x) ==
    CASE x[1] = "number" -> x
      [] x[1] = "string" -> StringToNumber(x[2])
      [] x[1] = "null" -> Num(0)
      [] OTHER -> NaN

RECURSIVE NatToString(_)
NatToString(n) ==
    IF n < 10 THEN <<DigitChar(n)>>
    ELSE NatToString(n \div 10) \o <<DigitChar(n % 10)>>

\* String(x)
JsString(x) ==
    CASE x[1] = "string" -> x
      [] x[1] = "number" ->
            Str(IF x[2] < 0 THEN <<"-">> \o NatToString(0 - x[2]) ELSE NatToString(x[2]))
      [] x[1] = "NaN" -> Str(<<"NaN">>)
      [] x[1] = "undefined" -> Str(<<"undefined">>)
      [] x[1] = "null" -> Str(<<"null">>)
      [] x[1] = "function" -> Str(<<"function ", x[2], "() { [native code] }">>)
      [] OTHER -> Str(<<"[object Object]">>)

\* Math.min(a, b)
MathMin(a, b) ==
    LET x == ToNumber(a)
        y == ToNumber(b)
    IN  IF x = NaN \/ y = NaN THEN NaN
        ELSE IF x[2] <= y[2] THEN x ELSE y

\* ToBoolean
Truthy(x) ==
    CASE x[1] \in {"undefined", "null", "NaN"} -> FALSE
      [] x[1] = "number" -> x[2] # 0
      [] x[1] = "string" -> x[2] # <<>>
      [] OTHER -> TRUE

\* a || b
Or(a, b) == IF Truthy(a) THEN a ELSE b

\* a destructuring default: { x = d } = object
Default(x, d) == IF x = Undefined THEN d ELSE x

\* a + b with b a number or a string
Plus(a, b) ==
    IF a[1] = "number" /\ b[1] = "number" THEN Num(a[2] + b[2])
    ELSE IF a[1] \in {"NaN", "undefined"} /\ b[1] = "number" THEN NaN
    ELSE IF a[1] = "null" /\ b[1] = "number" THEN b
    ELSE Str(JsString(a)[2] \o JsString(b)[2])

\* obj?.field on an object value, undefined or null
Get(o, f) ==
    IF o[1] = "object" /\ f \in DOMAIN o[2] THEN o[2][f] ELSE Undefined

\* arr?.[0]
First(a) == IF a[1] = "array" /\ Len(a[2]) > 0 THEN a[2][1] ELSE Undefined

\* a string literal of the source, kept as one opaque token
Lit(s) == Str(<<s>>)

\* { ...a, ...b } for objects with distinct keys
Spread(a, b) == a @@ b

----------------------------------------------------------------------------
(* Program constants *)

\* Math.min(per_page, 100)
ProviderMax == 100
\* per_page = 20
DefaultPerPage == 20
\* page = 1
DefaultPage == 1

----------------------------------------------------------------------------
(* Building the provider request: everything a search handler evaluates    *)
(* before it calls fetchFromIconScout / fetchFromFreepik                   *)

\* const { q = 'popular', page = 1, per_page = 20, asset = 'icon' } = req.query
Destructure(query) ==
    [q |-> Default(query.q, Lit("popular")),
     page |-> Default(query.page, Num(DefaultPage)),
     per_page |-> Default(query.per_page, Num(DefaultPerPage)),
     asset |-> Default(query.asset, Lit("icon"))]

\* the IconScout handlers: every route calls '/search' and differs in asset
IconScoutAsset(route, d) ==
    CASE route = "icons" -> Lit("icon")
      [] route = "3d-icons" -> Lit("3d")
      [] route = "illustrations" -> Lit("illustration")
      [] route = "lottie" -> Lit("lottie")
      [] route = "search" -> d.asset

IconScoutRequest(route, query) ==
    LET d == Destructure(query)
    IN  [endpoint |-> "/search",
         params |-> ("query" :> d.q) @@ ("asset" :> IconScoutAsset(route, d))
                    @@ ("page" :> d.page) @@ ("per_page" :> d.per_page)
                    @@ ("price" :> Lit("free"))]

\* app.get('/api/icons') of the Freepik server
FreepikIconsRequest(d) ==
    [endpoint |-> "/icons",
     params |-> ("term" :> d.q) @@ ("page" :> d.page)
                @@ ("per_page" :> MathMin(d.per_page, Num(ProviderMax)))
                @@ ("order" :> Lit("relevance"))
                @@ ("filters[license][freemium]" :> Num(1))]

\* app.get('/api/3d-icons')
Freepik3dRequest(d) ==
    [endpoint |-> "/resources",
     params |-> ("term" :> Plus(d.q, Lit(" 3d"))) @@ ("page" :> d.page)
                @@ ("limit" :> MathMin(d.per_page, Num(ProviderMax)))
                @@ ("order" :> Lit("relevance"))
                @@ ("filters[content_type][vector]" :> Num(1))
                @@ ("filters[vector][style]" :> Lit("3d"))
                @@ ("filters[license][freemium]" :> Num(1))]

\* app.get('/api/illustrations')
FreepikIllustrationsRequest(d) ==
    [endpoint |-> "/resources",
     params |-> ("term" :> d.q) @@ ("page" :> d.page)
                @@ ("limit" :> MathMin(d.per_page, Num(ProviderMax)))
                @@ ("order" :> Lit("relevance"))
                @@ ("filters[content_type][vector]" :> Num(1))
                @@ ("filters[license][freemium]" :> Num(1))]

\* app.get('/api/lottie')
FreepikLottieRequest(d) ==
    [endpoint |-> "/resources",
     params |-> ("term" :> Plus(d.q, Lit(" animation motion"))) @@ ("page" :> d.page)
                @@ ("limit" :> MathMin(d.per_page, Num(ProviderMax)))
                @@ ("order" :> Lit("relevance"))
                @@ ("filters[content_type][vector]" :> Num(1))
                @@ ("filters[license][freemium]" :> Num(1))]

\* the filters object of app.get('/api/search')
SearchFilters(asset) ==
    IF asset = Lit("3d")
    THEN ("filters[content_type][vector]" :> Num(1)) @@ ("filters[vector][style]" :> Lit("3d"))
    ELSE IF asset = Lit("illustration") \/ asset = Lit("vector")
    THEN ("filters[content_type][vector]" :> Num(1))
    ELSE IF asset = Lit("photo")
    THEN ("filters[content_type][photo]" :> Num(1))
    ELSE <<>>

\* app.get('/api/search')
FreepikSearchRequest(d) ==
    IF d.asset = Lit("icon")
    THEN [endpoint |-> "/icons",
          params |-> ("term" :> d.q) @@ ("page" :> d.page)
                     @@ ("per_page" :> MathMin(d.per_page, Num(ProviderMax)))
                     @@ ("order" :> Lit("relevance"))
                     @@ ("filters[license][freemium]" :> Num(1))]
    ELSE [endpoint |-> "/resources",
          params |-> Spread(("term" :> d.q) @@ ("page" :> d.page)
                              @@ ("limit" :> MathMin(d.per_page, Num(ProviderMax)))
                              @@ ("order" :> Lit("relevance"))
                              @@ ("filters[license][freemium]" :> Num(1)),
                            SearchFilters(d.asset))]

FreepikRequest(route, query) ==
    LET d == Destructure(query)
    IN  CASE route = "icons" -> FreepikIconsRequest(d)
          [] route = "3d-icons" -> Freepik3dRequest(d)
          [] route = "illustrations" -> FreepikIllustrationsRequest(d)
          [] route = "lottie" -> FreepikLottieRequest(d)
          [] route = "search" -> FreepikSearchRequest(d)

BuildRequest(route, query) ==
    IF provider = "iconscout" THEN IconScoutRequest(route, query)
    ELSE FreepikRequest(route, query)

----------------------------------------------------------------------------
(* Response transformation *)

\* the value of an expression that threw a TypeError
TypeError(msg) == <<"throw", <<msg>>>>
Threw(x) == x[1] = "throw"

\* thumbnails?.find(t => t[field] === value): undefined when thumbnails is nullish;
\* the callback reads a property of every entry it visits, which throws on a null
\* or undefined entry
RECURSIVE FindFrom(_, _, _, _)
FindFrom(a, i, field, value) ==
    IF i > Len(a) THEN Undefined
    ELSE IF a[i][1] \in {"null", "undefined"}
    THEN TypeError("Cannot read properties of null")
    ELSE IF Get(a[i], field) = value THEN a[i]
    ELSE FindFrom(a, i + 1, field, value)

Find(thumbnails, field, value) ==
    IF thumbnails[1] = "array" THEN FindFrom(thumbnails[2], 1, field, value) ELSE Undefined

\* found?.url || fallback, where evaluating `found` may have thrown
UrlOr(found, fallback) ==
    IF Threw(found) THEN found ELSE Or(Get(found, "url"), fallback)

\* one item of transformIconResponse
TransformIconItem(item) ==
    LET thumbnails == Get(item, "thumbnails")
        first == Get(First(thumbnails), "url")
        find128 == Find(thumbnails, "size", Num(128))
        find64 == Find(thumbnails, "size", Num(64))
        png_128 == UrlOr(find128, first)
        png_64 == UrlOr(find64, first)
    IN  IF Threw(png_128) THEN png_128
        ELSE IF Threw(png_64) THEN png_64
        ELSE Obj([id |-> Get(item, "id"),
                  uuid |-> JsString(Get(item, "id")),
                  name |-> Or(Or(Get(item, "description"), Get(item, "name")),
                              Lit("Untitled Icon")),
                  urls |-> Obj([png_128 |-> png_128, png_64 |-> png_64, thumb |-> first]),
                  preview |-> first])

\* one item of transformResourceResponse
TransformResourceItem(item) ==
    LET thumbnails == Get(item, "thumbnails")
        source == Get(Get(Get(item, "image"), "source"), "url")
        small == IF Truthy(source) THEN source
                 ELSE LET found == Find(thumbnails, "key", Lit("small"))
                      IN  IF Threw(found) THEN found ELSE Get(found, "url")
    IN  IF Threw(small) THEN small
        ELSE Obj([id |-> Get(item, "id"),
                  uuid |-> JsString(Get(item, "id")),
                  name |-> Or(Or(Get(item, "title"), Get(item, "filename")),
                              Lit("Untitled")),
                  urls |-> Obj([png_128 |-> small, png_64 |-> small,
                                thumb |-> Or(source, Get(First(thumbnails), "url"))]),
                  preview |-> source])

\* items.map(item => ...) of the transformer for `kind`: the first callback that
\* throws ends the map
RECURSIVE MapItems(_, _)
MapItems(items, kind) ==
    IF items = <<>> THEN Arr(<<>>)
    ELSE LET head == IF kind = "icon" THEN TransformIconItem(Head(items))
                     ELSE TransformResourceItem(Head(items))
         IN  IF Threw(head) THEN head
             ELSE LET rest == MapItems(Tail(items), kind)
                  IN  IF Threw(rest) THEN rest ELSE Arr(<<head>> \o rest[2])

\* const items = freepikData.data || [], on the body axios returned
ItemsOf(freepikData) ==
    IF freepikData[1] \in {"null", "undefined"}
    THEN TypeError("Cannot read properties of null")
    ELSE Or(Get(freepikData, "data"), Arr(<<>>))

transformIconResponse(freepikData) ==
    LET items == ItemsOf(freepikData)
    IN  IF Threw(items) THEN items ELSE MapItems(items[2], "icon")

transformResourceResponse(freepikData) ==
    LET items == ItemsOf(freepikData)
    IN  IF Threw(items) THEN items ELSE MapItems(items[2], "resource")

----------------------------------------------------------------------------
(* The search handlers *)

NoRequest == [endpoint |-> "none", params |-> <<>>]
NoSearch == [route |-> "none", query |-> <<>>]
NoHandler == [route |-> "none", asset |-> Undefined]
NoResponse == [status |-> Undefined, body |-> <<>>]
Pending == [kind |-> "pending", value |-> Undefined]

\* the `error` text of each handler's catch block
ErrorText(route) ==
    IF provider = "iconscout"
    THEN CASE route = "icons" -> Lit("Failed to fetch icons")
           [] route = "3d-icons" -> Lit("Failed to fetch 3D icons")
           [] route = "illustrations" -> Lit("Failed to fetch illustrations")
           [] route = "lottie" -> Lit("Failed to fetch Lottie animations")
           [] route = "search" -> Lit("Failed to fetch assets")
    ELSE CASE route = "icons" -> Lit("Failed to fetch icons")
           [] route = "3d-icons" -> Lit("Failed to fetch 3D assets")
           [] route = "illustrations" -> Lit("Failed to fetch illustrations")
           [] route = "lottie" -> Lit("Failed to fetch animations")
           [] route = "search" -> Lit("Failed to fetch assets")

\* mutant: res.status(500) whatever the provider reported
ErrorStatusAlways500(error) == Num(500)

\* error.response?.status || 500
ErrorStatus(error) == Or(Get(Get(error, "response"), "status"), Num(500))

\* error.response?.data?.message || error.message
ErrorMessage(error) ==
    Or(Get(Get(Get(error, "response"), "data"), "message"), Get(error, "message"))

\* the catch block of a search handler
CatchResponse(route, error) ==
    [status |-> ErrorStatus(error),
     body |-> [success |-> FALSE,
               error |-> ErrorText(route),
               message |-> ErrorMessage(error),
               data |-> Arr(<<>>),
               pagination |-> Undefined,
               note |-> Undefined]]

\* an Error thrown by the server's own code: it has a message and no response
ThrownError(msg) == Obj([response |-> Undefined, message |-> msg])

\* mutant: the check written as KEY === undefined
KeyMissingUndefinedOnly == apiKey = Undefined

\* the check that opens fetchFromIconScout / fetchFromFreepik
KeyMissing == ~Truthy(apiKey)

KeyMissingError ==
    IF provider = "iconscout"
    THEN ThrownError(Lit("ICONSCOUT_CLIENT_ID environment variable is not set"))
    ELSE ThrownError(Lit("FREEPIK_API_KEY environment variable is not set"))

\* the note of app.get('/api/lottie') of the Freepik server
LottieNote ==
    Lit("Freepik does not have native Lottie animations. Showing animated/motion vectors instead.")

\* res.json({ success: true, ... }) of the IconScout handlers
IconScoutSuccess(route, data) ==
    IF data[1] \in {"null", "undefined"}
    THEN CatchResponse(route, ThrownError(Lit("Cannot read properties of null")))
    ELSE LET items == Get(Get(data, "response"), "items")
         IN  [status |-> Num(200),
              body |-> [success |-> TRUE,
                        data |-> Or(Get(items, "data"), Arr(<<>>)),
                        pagination |-> Or(Get(items, "pagination"), EmptyObject),
                        note |-> Undefined,
                        error |-> Undefined,
                        message |-> Undefined]]

\* which transformer the Freepik handler of `route` applies
UsesIconTransform(route, asset) ==
    route = "icons" \/ (route = "search" /\ asset = Lit("icon"))

\* res.json({ success: true, ... }) of the Freepik handlers
FreepikSuccess(route, asset, data) ==
    LET transformed == IF UsesIconTransform(route, asset)
                       THEN transformIconResponse(data)
                       ELSE transformResourceResponse(data)
    IN  IF Threw(transformed)
        THEN CatchResponse(route, ThrownError(Str(transformed[2])))
        ELSE [status |-> Num(200),
              body |-> [success |-> TRUE,
                        data |-> transformed,
                        pagination |-> Or(Get(data, "meta"), EmptyObject),
                        note |-> IF route = "lottie" THEN LottieNote ELSE Undefined,
                        error |-> Undefined,
                        message |-> Undefined]]

SuccessResponse(route, asset, data) ==
    IF provider = "iconscout" THEN IconScoutSuccess(route, data)
    ELSE FreepikSuccess(route, asset, data)

----------------------------------------------------------------------------
(* Inputs: query strings and provider replies *)

QValues == {Undefined, Str(<<"cat">>)}

PageValues ==
    {Undefined, Str(<<"0">>), Str(<<"2">>), Str(<<"-", "1">>), Str(<<"a", "b", "c">>)}

PerPageValues ==
    {Undefined, Str(<<>>), Str(<<"0">>), Str(<<"-", "5">>), Str(<<"a", "b", "c">>),
     Str(<<"5", "0">>), Str(<<"1", "0", "0">>), Str(<<"1", "0", "1">>),
     Str(<<"5", "0", "0">>)}

AssetValues ==
    {Undefined, Lit("icon"), Lit("3d"), Lit("illustration"), Lit("animation"),
     Lit("lottie"), Lit("photo"), Lit("vector")}

Queries(route) ==
    [q : QValues, page : PageValues, per_page : PerPageValues,
     asset : IF route = "search" THEN AssetValues ELSE {Undefined}]

Thumb(size, key, url) == Obj([size |-> size, key |-> key, url |-> url])

\* the image fields of a provider item: thumbnails and image
ImageFields ==
    {[thumbnails |-> Undefined, image |-> Undefined],
     [thumbnails |-> Arr(<<Thumb(Num(128), Lit("small"), Lit("u128"))>>),
      image |-> Undefined],
     [thumbnails |-> Arr(<<Thumb(Num(64), Lit("large"), Undefined),
                           Thumb(Num(128), Lit("small"), Lit("u128"))>>),
      image |-> Undefined],
     [thumbnails |-> Arr(<<Thumb(Num(32), Lit("large"), Undefined),
                           Thumb(Num(16), Lit("medium"), Lit("u16"))>>),
      image |-> Undefined],
     [thumbnails |-> Undefined,
      image |-> Obj([source |-> Obj([url |-> Lit("full")])])],
     [thumbnails |-> Arr(<<Thumb(Num(128), Lit("small"), Lit("u128"))>>),
      image |-> Obj([source |-> Obj([url |-> Lit("full")])])],
     [thumbnails |-> Arr(<<Null, Thumb(Num(128), Lit("small"), Lit("u128"))>>),
      image |-> Obj([source |-> Undefined])]}

\* the name fields of a provider item
NameFields ==
    {[title |-> Undefined, filename |-> Undefined, description |-> Undefined,
      name |-> Undefined],
     [title |-> Lit("T"), filename |-> Undefined, description |-> Undefined,
      name |-> Undefined],
     [title |-> Str(<<>>), filename |-> Lit("F"), description |-> Undefined,
      name |-> Lit("N")],
     [title |-> Null, filename |-> Undefined, description |-> Lit("D"),
      name |-> Undefined]}

Items ==
    {Obj([id |-> Num(7), title |-> n.title, filename |-> n.filename,
          description |-> n.description, name |-> n.name,
          thumbnails |-> i.thumbnails, image |-> i.image]) :
        n \in NameFields, i \in ImageFields}

ItemArrays == UNION {[1..n -> Items] : n \in 0..MaxItems}

Metas == {Undefined, Obj([total |-> Num(1)])}

\* response.data of a 2xx reply
Bodies ==
    IF provider = "iconscout"
    THEN {Null, Obj([response |-> Undefined]),
          Obj([response |-> Obj([items |-> Undefined])])}
         \cup {Obj([response |-> Obj([items |-> Obj([data |-> Arr(a), pagination |-> m])])]) :
                 a \in ItemArrays, m \in Metas}
    ELSE {Null, Obj([data |-> Undefined, meta |-> Undefined])}
         \cup {Obj([data |-> Arr(a), meta |-> m]) : a \in ItemArrays, m \in Metas}

\* the errors axios rejects with: no response (network), or a non-2xx response
AxiosErrors ==
    {Obj([response |-> Undefined, message |-> Lit("Network Error")])}
    \cup {Obj([response |-> Obj([status |-> Num(st), data |-> d]),
               message |-> Lit("Request failed with status code")]) :
            st \in {404, 429, 503},
            d \in {Undefined, Lit("<html>"), Obj([message |-> Undefined]),
                   Obj([message |-> Str(<<>>)]), Obj([message |-> Lit("Rate limit exceeded")])}}

----------------------------------------------------------------------------
(* Search actions *)

\* a search handler from the request to its call of axios (or to its catch block
\* when fetchFrom... throws before calling axios)
Receive(route, query) ==
    /\ pc = "idle"
    /\ req' = [route |-> route, query |-> query]
    /\ handler' = [route |-> route,
                   asset |-> IF route = "search" THEN Destructure(query).asset
                             ELSE Undefined]
    /\ settled' = Pending
    /\ IF KeyMissing
       THEN /\ resp' = CatchResponse(route, KeyMissingError)
            /\ sent' = 1
            /\ outbound' = NoRequest
            /\ calls' = 0
            /\ pc' = "responded"
       ELSE /\ outbound' = BuildRequest(route, query)
            /\ calls' = 1
            /\ resp' = NoResponse
            /\ sent' = 0
            /\ pc' = "calling"
    /\ UNCHANGED <<configVars, downloadVars>>

Icons == \E query \in Queries("icons") : Receive("icons", query)
ThreeDIcons == \E query \in Queries("3d-icons") : Receive("3d-icons", query)
Illustrations == \E query \in Queries("illustrations") : Receive("illustrations", query)
Lottie == \E query \in Queries("lottie") : Receive("lottie", query)
Search == \E query \in Queries("search") : Receive("search", query)

\* await axios({...}): the request is on the wire and the handler is suspended;
\* of its locals only the route and the asset are read again
AxiosSends ==
    /\ pc = "calling"
    /\ pc' = "awaiting"
    /\ req' = NoSearch
    /\ outbound' = NoRequest
    /\ UNCHANGED <<calls, handler, settled, resp, sent, configVars, downloadVars>>

\* axios resolves: the handler resumes, transforms and responds
ProviderReplies ==
    /\ pc = "awaiting"
    /\ \E data \in Bodies :
         /\ settled' = [kind |-> "resolved", value |-> data]
         /\ resp' = SuccessResponse(handler.route, handler.asset, data)
    /\ sent' = sent + 1
    /\ pc' = "responded"
    /\ UNCHANGED <<req, outbound, calls, handler, configVars, downloadVars>>

\* mutant: a rejected call is issued once more before the catch block responds
ProviderFailsRetrying ==
    /\ pc = "awaiting"
    /\ \E error \in AxiosErrors :
         IF calls < 2
         THEN /\ calls' = calls + 1
              /\ UNCHANGED <<pc, settled, resp, sent>>
         ELSE /\ settled' = [kind |-> "rejected", value |-> error]
              /\ resp' = CatchResponse(handler.route, error)
              /\ sent' = sent + 1
              /\ pc' = "responded"
              /\ UNCHANGED calls
    /\ UNCHANGED <<req, outbound, handler, configVars, downloadVars>>

\* axios rejects: fetchFrom... rethrows and the handler's catch block responds
ProviderFails ==
    /\ pc = "awaiting"
    /\ \E error \in AxiosErrors :
         /\ settled' = [kind |-> "rejected", value |-> error]
         /\ resp' = CatchResponse(handler.route, error)
    /\ sent' = sent + 1
    /\ pc' = "responded"
    /\ UNCHANGED <<req, outbound, calls, handler, configVars, downloadVars>>

\* the exchange is over; the server takes the next search request
SearchDone ==
    /\ pc = "responded"
    /\ pc' = "idle"
    /\ req' = NoSearch
    /\ outbound' = NoRequest
    /\ calls' = 0
    /\ handler' = NoHandler
    /\ settled' = Pending
    /\ resp' = NoResponse
    /\ sent' = 0
    /\ UNCHANGED <<configVars, downloadVars>>

SearchNext ==
    \/ Icons \/ ThreeDIcons \/ Illustrations \/ Lottie \/ Search
    \/ AxiosSends \/ ProviderReplies \/ ProviderFails \/ SearchDone

----------------------------------------------------------------------------
(* The download counter *)

\* asset ids of the requests: two provider ids and the name of a property every
\* object inherits from Object.prototype
AssetIds == {"101", "202", "constructor"}
ProtoKeys == {"constructor"}

NoCounts == [id \in {} |-> Undefined]

\* downloadCounts[assetId]: an own property, else an inherited one, else undefined
Lookup(counts, assetId) ==
    IF assetId \in DOMAIN counts THEN counts[assetId]
    ELSE IF assetId \in ProtoKeys THEN Fn("Object")
    ELSE Undefined

\* downloadCounts[assetId] = value
Assign(counts, assetId, value) ==
    [id \in DOMAIN counts \cup {assetId} |-> IF id = assetId THEN value ELSE counts[id]]

\* what JSON.stringify makes of a property value: a function or undefined is left
\* out, NaN becomes null
Json(x) ==
    CASE x[1] \in {"function", "undefined"} -> Undefined
      [] x[1] = "NaN" -> Null
      [] OTHER -> x

NoFile == <<"absent", NoCounts>>
CorruptFile == <<"corrupt", NoCounts>>
\* JSON.stringify(downloadCounts, null, 2) as the content of downloads.json
JsonFile(counts) == <<"json", [id \in DOMAIN counts |-> Json(counts[id])]>>

\* downloads.json as an earlier run of the server left it
FilesAtStart ==
    {NoFile, CorruptFile}
    \cup {JsonFile([id \in ids |-> Num(c[id])]) :
            ids \in SUBSET (AssetIds \ ProtoKeys),
            c \in [AssetIds \ ProtoKeys -> 1..MaxLoaded]}

\* the load at module scope: local dev only, and only a file that exists and parses
LoadDownloadCounts(env, disk) ==
    IF env # "production" /\ disk[1] = "json" THEN disk[2] ELSE NoCounts

\* mutant: saveDownloadCounts without its try/catch, so a failed write throws
saveDownloadCountsNoCatch(counts, disk, writeOk) ==
    IF nodeEnv # "production"
    THEN IF writeOk
         THEN [file |-> JsonFile(counts), outcome |-> "written", threw |-> FALSE]
         ELSE [file |-> disk, outcome |-> "failed", threw |-> TRUE]
    ELSE [file |-> disk, outcome |-> "skipped", threw |-> FALSE]

\* saveDownloadCounts(): the file after the call, and whether the call threw
saveDownloadCounts(counts, disk, writeOk) ==
    IF nodeEnv # "production"
    THEN IF writeOk
         THEN [file |-> JsonFile(counts), outcome |-> "written", threw |-> FALSE]
         ELSE [file |-> disk, outcome |-> "failed", threw |-> FALSE]
    ELSE [file |-> disk, outcome |-> "skipped", threw |-> FALSE]

\* (downloadCounts[assetId] || 0) + 1
Incremented(counts, assetId) == Plus(Or(Lookup(counts, assetId), Num(0)), Num(1))

NoDownloadResponse ==
    [op |-> "none", id |-> "", save |-> "none", before |-> Undefined,
     status |-> Undefined, success |-> FALSE, downloads |-> Undefined]

\* app.get('/api/downloads/:assetId')
GetDownloads ==
    /\ \E assetId \in AssetIds :
         dresp' = [op |-> "get", id |-> assetId, save |-> "none",
                   before |-> Lookup(downloadCounts, assetId),
                   status |-> Num(200), success |-> TRUE,
                   downloads |-> Json(Or(Lookup(downloadCounts, assetId), Num(0)))]
    /\ UNCHANGED <<downloadCounts, file, loaded, incs, inflight, configVars, searchVars>>

\* app.get('/api/downloads')
GetAllDownloads ==
    /\ dresp' = [op |-> "all", id |-> "", save |-> "none", before |-> Undefined,
                 status |-> Num(200), success |-> TRUE,
                 downloads |-> Obj([id \in DOMAIN downloadCounts |->
                                       Json(downloadCounts[id])])]
    /\ UNCHANGED <<downloadCounts, file, loaded, incs, inflight, configVars, searchVars>>

\* app.post('/api/downloads/:assetId'); the handler is synchronous, so it runs
\* from its first line to res.json without another handler in between
PostDownloads ==
    /\ \E assetId \in AssetIds, writeOk \in BOOLEAN :
         /\ incs[assetId] < MaxIncs
         /\ LET counts == Assign(downloadCounts, assetId,
                                 Incremented(downloadCounts, assetId))
                saved == saveDownloadCounts(counts, file, writeOk)
            IN  /\ downloadCounts' = counts
                /\ file' = saved.file
                /\ incs' = [incs EXCEPT ![assetId] = @ + 1]
                /\ dresp' = IF saved.threw
                            THEN [op |-> "inc", id |-> assetId, save |-> saved.outcome,
                                  before |-> Lookup(downloadCounts, assetId),
                                  status |-> Num(500), success |-> FALSE,
                                  downloads |-> Undefined]
                            ELSE [op |-> "inc", id |-> assetId, save |-> saved.outcome,
                                  before |-> Lookup(downloadCounts, assetId),
                                  status |-> Num(200), success |-> TRUE,
                                  downloads |-> Json(counts[assetId])]
    /\ UNCHANGED <<loaded, inflight, configVars, searchVars>>

DownloadNext == GetDownloads \/ GetAllDownloads \/ PostDownloads

\* the connections on which a POST /api/downloads/:assetId can be open
Slots == 1..MaxParallel

\* a request of a connection: not there, "queued" (received, its handler not yet
\* called by the event loop) or "done" (answered).  seen is history: the value of
\* downloadCounts[assetId] when the request arrived
NoPost == [state |-> "none", id |-> "", seen |-> Undefined, returned |-> Undefined]

\* a parallel POST /api/downloads/:assetId reaches the process while earlier ones
\* still wait for their handler
PostArrives ==
    /\ \E s \in Slots, assetId \in AssetIds :
         /\ inflight[s].state = "none"
         /\ \A t \in Slots : t < s => inflight[t].state # "none"
         /\ inflight' = [inflight EXCEPT ![s] =
                            [state |-> "queued", id |-> assetId,
                             seen |-> Lookup(downloadCounts, assetId),
                             returned |-> Undefined]]
    /\ UNCHANGED <<downloadCounts, file, loaded, incs, dresp, configVars, searchVars>>

\* mutant: the count is read when the request arrives and written back after a
\* pause in which other handlers run
CountReadAtArrival(counts, r) == r.seen

\* downloadCounts[assetId] on the right of the handler's assignment: read in the
\* same synchronous run that writes the sum back
CountRead(counts, r) == Lookup(counts, r.id)

\* the event loop calls the handler of a queued request, which runs to its
\* res.json: the same handler as PostDownloads, for a request that waited
RunPost(s) ==
    /\ inflight[s].state = "queued"
    /\ \E writeOk \in BOOLEAN :
         LET r == inflight[s]
             counts == Assign(downloadCounts, r.id,
                              Plus(Or(CountRead(downloadCounts, r), Num(0)), Num(1)))
             saved == saveDownloadCounts(counts, file, writeOk)
         IN  /\ downloadCounts' = counts
             /\ file' = saved.file
             /\ incs' = [incs EXCEPT ![r.id] = @ + 1]
             /\ dresp' = [op |-> "inc", id |-> r.id, save |-> saved.outcome,
                          before |-> Lookup(downloadCounts, r.id),
                          status |-> Num(200), success |-> TRUE,
                          downloads |-> Json(counts[r.id])]
             /\ inflight' = [inflight EXCEPT ![s] =
                                [r EXCEPT !.state = "done",
                                          !.returned = Json(counts[r.id])]]
    /\ UNCHANGED <<loaded, configVars, searchVars>>

PostRuns == \E s \in Slots : RunPost(s)

ConcurrentNext == PostArrives \/ PostRuns

----------------------------------------------------------------------------
(* Specifications *)

Providers == {"iconscout", "freepik"}
\* process.env.<KEY>: unset, set to the empty string, or set to a key
ApiKeys == {Undefined, Str(<<>>), Lit("key")}
NodeEnvs == {"production", "development"}

InitConfig ==
    /\ provider \in Providers
    /\ apiKey \in ApiKeys
    /\ nodeEnv \in NodeEnvs

InitSearch ==
    /\ pc = "idle"
    /\ req = NoSearch
    /\ outbound = NoRequest
    /\ calls = 0
    /\ handler = NoHandler
    /\ settled = Pending
    /\ resp = NoResponse
    /\ sent = 0

InitDownloads ==
    /\ file \in FilesAtStart
    /\ downloadCounts = LoadDownloadCounts(nodeEnv, file)
    /\ loaded = downloadCounts
    /\ incs = [id \in AssetIds |-> 0]
    /\ dresp = NoDownloadResponse
    /\ inflight = [s \in Slots |-> NoPost]

Init == InitConfig /\ InitSearch /\ InitDownloads

Next == SearchNext \/ DownloadNext \/ ConcurrentNext

Spec == Init /\ [][Next]_vars

\* the search handlers alone, started with no downloads.json
SearchInit == Init /\ file = NoFile /\ nodeEnv = "production"
SearchSpec == SearchInit /\ [][SearchNext]_vars

\* the download counter alone
DownloadInit == Init /\ apiKey = Lit("key")
DownloadSpec == DownloadInit /\ [][DownloadNext]_vars

\* parallel increments: requests wait in the event loop and their handlers run one
\* at a time, in any order
ConcurrentSpec == DownloadInit /\ [][ConcurrentNext]_vars

----------------------------------------------------------------------------
(* Claims *)

\* the page-size parameter of a provider request, as the provider reads it
PageSizeParam(r) ==
    ToNumber(IF "per_page" \in DOMAIN r.params THEN r.params["per_page"]
             ELSE r.params["limit"])

\* C1: on every search route and for every per_page, the page size placed in the
\* outbound provider request is a number of at most the provider maximum, 100.
C1_PageSizeAtMostMax ==
    pc = "calling" =>
        /\ PageSizeParam(outbound)[1] = "number"
        /\ PageSizeParam(outbound)[2] <= 100

\* the status the provider reported with the failure, if it reported one
ReportedStatus(error) ==
    IF error[2].response[1] = "object" THEN error[2].response[2].status ELSE Undefined

\* the message the provider gave with the failure, if it gave a non-empty one
ReportedMessage(error) ==
    IF /\ error[2].response[1] = "object"
       /\ error[2].response[2].data[1] = "object"
       /\ error[2].response[2].data[2].message[1] = "string"
       /\ error[2].response[2].data[2].message[2] # <<>>
    THEN error[2].response[2].data[2].message
    ELSE Undefined

NonEmptyString(x) == x[1] = "string" /\ x[2] # <<>>

\* C2: when the provider call fails, the response has success=false, data=[],
\* non-empty error and message, the provider's status (500 if it reported none) and
\* the provider's message (the transport error's message if it gave none); and no
\* response with success=false carries a non-empty data sequence.
C2_FailureEnvelope ==
    pc = "responded" =>
        /\ settled.kind = "rejected" =>
              /\ resp.body.success = FALSE
              /\ resp.body.data = Arr(<<>>)
              /\ NonEmptyString(resp.body.error)
              /\ NonEmptyString(resp.body.message)
              /\ resp.status = IF ReportedStatus(settled.value) = Undefined THEN Num(500)
                               ELSE ReportedStatus(settled.value)
              /\ resp.body.message =
                    IF ReportedMessage(settled.value) = Undefined
                    THEN settled.value[2].message
                    ELSE ReportedMessage(settled.value)
        /\ resp.body.success = FALSE => resp.body.data = Arr(<<>>)

\* a 429 with a structured message has been answered on the generic route
C2_Witness ==
    /\ pc = "responded"
    /\ handler.route = "search"
    /\ settled.kind = "rejected"
    /\ ReportedStatus(settled.value) = Num(429)
    /\ ReportedMessage(settled.value) = Lit("Rate limit exceeded")
    /\ resp.status = Num(429)

\* the credential is unset or empty
NotConfigured == apiKey = Undefined \/ apiKey = Str(<<>>)

\* C3: with the API key not configured, every search request on every route is
\* answered with success=false, data=[], status 500 and a message, and no provider
\* call is issued for it.
C3_MissingKeyFailsFast ==
    NotConfigured =>
        /\ calls = 0
        /\ outbound = NoRequest
        /\ pc \in {"idle", "responded"}
        /\ pc = "responded" =>
              /\ resp.status = Num(500)
              /\ resp.body.success = FALSE
              /\ resp.body.data = Arr(<<>>)
              /\ NonEmptyString(resp.body.error)
              /\ NonEmptyString(resp.body.message)

\* a request on the animation route was refused for an empty key
C3_Witness ==
    /\ apiKey = Str(<<>>)
    /\ pc = "responded"
    /\ handler.route = "lottie"
    /\ resp.status = Num(500)
    /\ calls = 0

\* the asset kind a request asks for: by its route, or by the asset parameter of
\* the generic route (default icon)
RequestedKind(h) ==
    CASE h.route = "icons" -> "icon"
      [] h.route = "3d-icons" -> "3d"
      [] h.route = "illustrations" -> "illustration"
      [] h.route = "lottie" -> "animation"
      [] h.route = "search" ->
            IF h.asset \in {Lit("icon"), Lit("3d"), Lit("illustration"), Lit("animation")}
            THEN h.asset[2][1] ELSE "other"
      [] OTHER -> "none"

TableKinds == {"icon", "3d", "illustration", "animation"}

\* Freepik has no animation category; IconScout serves Lottie natively
NoNativeCategory(kind) == provider = "freepik" /\ kind = "animation"

\* C4: a successful result carries a non-empty note exactly when the requested kind
\* has no native provider category (animation), through the dedicated route and
\* through /api/search alike; for icon, 3d and illustration the note is absent.
C4_NoteIffApproximated ==
    (pc = "responded" /\ resp.body.success = TRUE
        /\ RequestedKind(handler) \in TableKinds) =>
        /\ NonEmptyString(resp.body.note) <=> NoNativeCategory(RequestedKind(handler))
        /\ ~NoNativeCategory(RequestedKind(handler)) => resp.body.note = Undefined

\* the mapping table of the Translator: endpoint, filters and term per kind
TableEndpoint(kind) == IF kind = "icon" THEN "/icons" ELSE "/resources"

TableFilters(kind) ==
    CASE kind = "icon" -> {<<"filters[license][freemium]", Num(1)>>}
      [] kind = "3d" -> {<<"filters[content_type][vector]", Num(1)>>,
                         <<"filters[vector][style]", Lit("3d")>>,
                         <<"filters[license][freemium]", Num(1)>>}
      [] kind \in {"illustration", "animation"} ->
                        {<<"filters[content_type][vector]", Num(1)>>,
                         <<"filters[license][freemium]", Num(1)>>}

TableTerm(kind, q) ==
    LET term == IF q = Undefined THEN <<"popular">> ELSE q[2]
    IN  CASE kind = "3d" -> Str(term \o <<" 3d">>)
          [] kind = "animation" -> Str(term \o <<" animation motion">>)
          [] OTHER -> Str(term)

FilterKeys ==
    {"filters[license][freemium]", "filters[content_type][vector]",
     "filters[content_type][photo]", "filters[vector][style]"}

FiltersOf(params) == {<<key, params[key]>> : key \in DOMAIN params \cap FilterKeys}

DedicatedRoute(kind) ==
    CASE kind = "icon" -> "icons"
      [] kind = "3d" -> "3d-icons"
      [] kind = "illustration" -> "illustrations"
      [] kind = "animation" -> "lottie"

\* C5: on the Freepik server the provider request of every kind is built as the
\* mapping table states (endpoint, filters, term), and /api/search with asset=K
\* builds the same endpoint, filters and term as the dedicated route for K.
C5_RequestFollowsTable ==
    (pc = "calling" /\ provider = "freepik" /\ RequestedKind(handler) \in TableKinds) =>
        LET kind == RequestedKind(handler)
            dedicated == FreepikRequest(DedicatedRoute(kind), req.query)
        IN  /\ outbound.endpoint = TableEndpoint(kind)
            /\ FiltersOf(outbound.params) = TableFilters(kind)
            /\ outbound.params["term"] = TableTerm(kind, req.query.q)
            /\ outbound.endpoint = dedicated.endpoint
            /\ FiltersOf(outbound.params) = FiltersOf(dedicated.params)
            /\ outbound.params["term"] = dedicated.params["term"]

\* the items of the provider's reply
ProviderItems(data) ==
    LET items == IF provider = "iconscout"
                 THEN Get(Get(Get(data, "response"), "items"), "data")
                 ELSE Get(data, "data")
    IN  IF items[1] = "array" THEN items[2] ELSE <<>>

\* title, then filename, then the literal "Untitled"
FallbackName(item) ==
    IF NonEmptyString(Get(item, "title")) THEN Get(item, "title")
    ELSE IF NonEmptyString(Get(item, "filename")) THEN Get(item, "filename")
    ELSE Lit("Untitled")

\* C6: every entry of data in a successful result has a name that is not null,
\* undefined or empty: the first non-empty of the provider item's title and
\* filename, else the literal "Untitled".
C6_NameNeverEmpty ==
    (pc = "responded" /\ resp.body.success = TRUE) =>
        LET items == ProviderItems(settled.value)
            data == resp.body.data[2]
        IN  /\ Len(data) = Len(items)
            /\ \A i \in 1..Len(data) :
                  /\ NonEmptyString(Get(data[i], "name"))
                  /\ Get(data[i], "name") = FallbackName(items[i])

\* the thumbnails of an item that carry a URL
UrlThumbs(item) ==
    LET t == Get(item, "thumbnails")
    IN  IF t[1] = "array"
        THEN SelectSeq(t[2], LAMBDA e : NonEmptyString(Get(e, "url")))
        ELSE <<>>

FullUrl(item) == Get(Get(Get(item, "image"), "source"), "url")

SuppliesImage(item) == UrlThumbs(item) # <<>> \/ NonEmptyString(FullUrl(item))

\* a thumbnail carries the size tag: size 128 on an icon, key 'small' on a resource
Tagged(e) == Get(e, "size") = Num(128) \/ Get(e, "key") = Lit("small")

\* the size-tagged thumbnail, else the first available one, else the full image
PreferredThumbnail(item) ==
    LET thumbs == UrlThumbs(item)
        tagged == SelectSeq(thumbs, Tagged)
    IN  IF tagged # <<>> THEN Get(tagged[1], "url")
        ELSE IF thumbs # <<>> THEN Get(thumbs[1], "url")
        ELSE FullUrl(item)

HasUrl(asset) ==
    \/ NonEmptyString(Get(asset, "preview"))
    \/ \E f \in {"png_128", "png_64", "thumb"} :
          NonEmptyString(Get(Get(asset, "urls"), f))

NoNullThumbnail(item) ==
    LET t == Get(item, "thumbnails")
    IN  t[1] = "array" => \A i \in 1..Len(t[2]) : t[2][i][1] = "object"

\* C7: on the Freepik server, for every kind, an item that supplies any image field
\* yields an asset with a thumbnail or preview URL; the thumbnail is the size-tagged
\* one, else the first available one, else the full-resolution image; and an item
\* with missing sub-fields never fails the result.
C7_ImageDegradesGracefully ==
    (pc = "responded" /\ provider = "freepik" /\ settled.kind = "resolved"
        /\ settled.value[1] = "object"
        /\ \A i \in 1..Len(ProviderItems(settled.value)) :
              NoNullThumbnail(ProviderItems(settled.value)[i])) =>
        LET items == ProviderItems(settled.value)
            data == resp.body.data[2]
        IN  /\ resp.body.success = TRUE
            /\ Len(data) = Len(items)
            /\ \A i \in 1..Len(items) :
                  /\ SuppliesImage(items[i]) => HasUrl(data[i])
                  /\ Get(Get(data[i], "urls"), "png_128") = PreferredThumbnail(items[i])

\* the page parameter of a provider request, as the provider reads it
PageParam(r) == ToNumber(r.params["page"])

\* C10: for any page and per_page (0, negative and non-numeric included) the page
\* forwarded is an integer of at least 1 and the page size is within 1..100.
C10_PageAndSizeInRange ==
    pc = "calling" =>
        /\ PageParam(outbound)[1] = "number"
        /\ PageParam(outbound)[2] >= 1
        /\ PageSizeParam(outbound)[1] = "number"
        /\ PageSizeParam(outbound)[2] >= 1
        /\ PageSizeParam(outbound)[2] <= 100

\* the count loaded at start for an id, 0 if the id was not in the file
LoadedCount(assetId) == IF assetId \in DOMAIN loaded THEN loaded[assetId][2] ELSE 0

\* C8: get(assetId) returns the count loaded at start (0 if unseen) plus the number
\* of increments so far; increment returns the previous count plus 1, which a get
\* right after it returns too; counts are non-negative integers; an increment of one
\* id leaves the other ids alone.
C8_CountIsLoadedPlusIncrements ==
    /\ dresp.op = "get" =>
          dresp.downloads = Num(LoadedCount(dresp.id) + incs[dresp.id])
    /\ dresp.op = "inc" =>
          /\ dresp.downloads = Num(LoadedCount(dresp.id) + incs[dresp.id])
          /\ dresp.downloads = Json(Or(Lookup(downloadCounts, dresp.id), Num(0)))
    /\ \A assetId \in AssetIds :
          IF assetId \in DOMAIN downloadCounts
          THEN /\ downloadCounts[assetId][1] = "number"
               /\ downloadCounts[assetId][2] >= 0
               /\ downloadCounts[assetId][2] = LoadedCount(assetId) + incs[assetId]
          ELSE LoadedCount(assetId) + incs[assetId] = 0

\* C9: whether the write after an increment succeeds, fails or is skipped
\* (production), the increment answers 200 success=true with the incremented
\* in-memory count, every increment stays counted in memory, and a later get
\* answers the in-memory value.
C9_SaveNeverAffectsResponse ==
    /\ dresp.op = "inc" =>
          /\ dresp.save \in {"written", "failed", "skipped"}
          /\ dresp.status = Num(200)
          /\ dresp.success = TRUE
          /\ dresp.id \in DOMAIN downloadCounts
          /\ dresp.downloads = Json(downloadCounts[dresp.id])
          /\ dresp.before = Undefined => dresp.downloads = Num(1)
          /\ dresp.before[1] = "number" => dresp.downloads = Num(dresp.before[2] + 1)
    /\ dresp.op = "get" =>
          /\ dresp.success = TRUE
          /\ dresp.id \in DOMAIN downloadCounts =>
                dresp.downloads = Json(downloadCounts[dresp.id])
    /\ \A assetId \in AssetIds \ ProtoKeys :
          IF assetId \in DOMAIN downloadCounts
          THEN downloadCounts[assetId] = Num(LoadedCount(assetId) + incs[assetId])
          ELSE LoadedCount(assetId) + incs[assetId] = 0

\* the second increment of an id was answered 2 although its write failed and the
\* file still holds an older map
C9_Witness ==
    /\ dresp.op = "inc"
    /\ dresp.save = "failed"
    /\ dresp.id = "101"
    /\ dresp.downloads = Num(2)
    /\ file # JsonFile(downloadCounts)

\* the answered increments of an id among the parallel requests
DoneOn(assetId) ==
    {s \in Slots : inflight[s].state = "done" /\ inflight[s].id = assetId}

\* two requests on one id that were both waiting before either handler ran: the
\* count either of them saw on arrival is the count the other saw
Overlapped(s, t) ==
    /\ s # t
    /\ inflight[s].state # "none"
    /\ inflight[t].state # "none"
    /\ inflight[s].id = inflight[t].id
    /\ inflight[s].seen = inflight[t].seen

\* the handler of request t completes with the count request s was answered
LosesUpdate(s, t) == RunPost(t) /\ inflight'[t].returned = inflight[s].returned

C12_OneCallOneResponse ==
    ~NotConfigured =>
        /\ pc = "idle" => (calls = 0 /\ sent = 0)
        /\ pc = "calling" => outbound # NoRequest
        /\ pc \in {"calling", "awaiting"} =>
              /\ calls = 1
              /\ sent = 0
              /\ resp = NoResponse
              /\ settled = Pending
        /\ pc = "responded" =>
              /\ calls = 1
              /\ sent = 1
              /\ resp # NoResponse
              /\ settled.kind \in {"resolved", "rejected"}
        /\ sent > 0 => settled # Pending
        /\ settled.kind = "rejected" => calls = 1

\* the generic route's branch for the other asset kinds answered once, with the
\* provider's status, after its only call was rejected
C12_Witness ==
    /\ ~NotConfigured
    /\ pc = "responded"
    /\ handler.route = "search"
    /\ handler.asset = Lit("illustration")
    /\ settled.kind = "rejected"
    /\ calls = 1
    /\ sent = 1
    /\ resp.status = Num(503)

====
